---------------------------- MODULE Spec2Model ----------------------------
(***************************************************************************)
(* The EPEC extraction pipeline of scripts/epec_extract.py: main() fetches *)
(* the portal page, derives the filter domain, queries one (country,       *)
(* sector) cell at a time, zero-fills the year range into a dense cube,    *)
(* fetches the quickStat reference totals, reconciles the sums against     *)
(* them and only then writes the CSV and the metadata document.            *)
(*                                                                         *)
(* Strings that the code takes apart (option texts, option values, filter  *)
(* values) are sequences of one-character strings.  Monetary values are    *)
(* counted in halves of a EUR million, so that round() meets exact ties.   *)
(***************************************************************************)
EXTENDS Integers, Sequences, FiniteSets, TLC

VARIABLES
    portal,     \* the remote side: its landing page and what its cell endpoint answers
    pc,         \* the statement of main() that runs next
    html,       \* main: html
    filters,    \* main: filters
    cell,       \* iter_rows: number of (country, sector) pairs already assembled
    payload,    \* iter_rows: payload of the pair being assembled
    rows,       \* main: rows, as far as list(iter_rows(filters)) has got
    quickstat,  \* fetch_reference_totals: payload
    reference,  \* main: (quickstat_total_projects, quickstat_total_value)
    summed,     \* main: (summed_projects, summed_value)
    requests,   \* every requests.get issued so far, in order
    files,      \* what is on disk: the output directory, the CSV, the metadata
    err         \* the exception that ended the run

vars == <<portal, pc, html, filters, cell, payload, rows, quickstat, reference,
          summed, requests, files, err>>

----------------------------------------------------------------------------
(* Bounds of the model *)

\* most options a selection element of the portal page carries
MaxOptions == 2
\* longest sequence (years, counts, values) a cell response carries
MaxSeqLen == 2
\* largest total and totalValue the quickStat endpoint reports
MaxTotal == 1

\* years the portal's slider may declare
Years == 2000..2001
\* years a cell response may name: the slider's years and one outside them
PayloadYears == 1999..2001

\* a variable main() has not assigned yet
None == <<>>
\* JSON null among the numbers of a response
Null == 0 - 1

Min(a, b) == IF a <= b THEN a ELSE b

SeqsUpTo(S, n) == UNION {[1..m -> S] : m \in 0..n}

----------------------------------------------------------------------------
(* Constants of the program *)

PORTAL_URL == "https://data.eib.org/epec/"
SECTOR_YEARS_ENDPOINT == "https://data.eib.org/epec/sector/years"
QUICKSTAT_ENDPOINT == "https://data.eib.org/epec/graph/quickStat"

\* the text that marks the "select all" option
ALL_MARKER == <<"-", "-", "A", "l", "l", "-", "-">>
\* the option value that marks the "select all" country
ALL_VALUE == <<"a", "l", "l">>

----------------------------------------------------------------------------
(* String helpers *)

\* str.lower() on the characters the model uses
LowerChar(c) ==
    CASE c = "A" -> "a"
      [] c = "L" -> "l"
      [] c = "C" -> "c"
      [] c = "E" -> "e"
      [] c = "T" -> "t"
      [] c = "B" -> "b"
      [] c = "F" -> "f"
      [] OTHER -> c

lower(s) == [i \in 1..Len(s) |-> LowerChar(s[i])]

\* needle in haystack
Contains(haystack, needle) ==
    \E i \in 1..(Len(haystack) - Len(needle) + 1) :
        SubSeq(haystack, i, i + Len(needle) - 1) = needle

RECURSIVE LStrip(_)
LStrip(s) == IF s # <<>> /\ Head(s) = " " THEN LStrip(Tail(s)) ELSE s

RECURSIVE RStrip(_)
RStrip(s) ==
    IF s # <<>> /\ s[Len(s)] = " " THEN RStrip(SubSeq(s, 1, Len(s) - 1)) ELSE s

\* opt.get_text(strip=True)
get_text_strip(opt) == RStrip(LStrip(opt.text))

\* opt.get("value", ""): an option is its text and the attributes it carries
get_value(opt) == IF "value" \in DOMAIN opt.attrs THEN opt.attrs.value ELSE <<>>

encode_filter(value) ==
    [i \in 1..Len(value) |-> IF value[i] = " " THEN "_" ELSE value[i]]

----------------------------------------------------------------------------
(* Filters and extract_filters *)

\* range(min_year, max_year): the last year left out
year_range_exclusive(f) ==
    IF f.max_year <= f.min_year THEN <<>>
    ELSE [i \in 1..(f.max_year - f.min_year) |-> f.min_year + i - 1]

\* Filters.year_range: list(range(min_year, max_year + 1))
year_range(f) ==
    IF f.max_year < f.min_year THEN <<>>
    ELSE [i \in 1..(f.max_year - f.min_year + 1) |-> f.min_year + i - 1]

\* the condition of the sectors comprehension
KeepSector(opt) ==
    /\ get_text_strip(opt) # <<>>
    /\ ~Contains(opt.text, ALL_MARKER)

\* the condition of the countries comprehension
KeepCountry(opt) ==
    /\ get_text_strip(opt) # <<>>
    /\ ~Contains(opt.text, ALL_MARKER)
    /\ lower(get_value(opt)) # ALL_VALUE

\* [opt.get_text(strip=True) for opt in ...]
Texts(opts) == [i \in 1..Len(opts) |-> get_text_strip(opts[i])]

\* soup.find(name, {"id": id}) is None: a page is a function from the ids of
\* the elements it has to their content
NotFound(page, id) == id \notin DOMAIN page

SelectMissing(page) == NotFound(page, "sector") \/ NotFound(page, "country")

\* "and" in place of "or"
EmptyDomainBoth(sectors, countries) == sectors = <<>> /\ countries = <<>>

\* not sectors or not countries
EmptyDomain(sectors, countries) == sectors = <<>> \/ countries = <<>>

\* the result of extract_filters(html): the Filters value, or the message of
\* the RuntimeError it raises
extract_filters(page) ==
    IF NotFound(page, "yearSlider")
    THEN [ok |-> FALSE, msg |-> "Year slider not found in the EPEC portal HTML."]
    ELSE IF SelectMissing(page)
    THEN [ok |-> FALSE,
          msg |-> "Unable to locate sector or country dropdowns in portal HTML."]
    ELSE LET sectors == Texts(SelectSeq(page.sector, KeepSector))
             countries == Texts(SelectSeq(page.country, KeepCountry))
         IN  IF EmptyDomain(sectors, countries)
             THEN [ok |-> FALSE,
                   msg |-> "Parsed empty sector or country list from the portal."]
             ELSE [ok |-> TRUE,
                   filters |-> [sectors |-> sectors, countries |-> countries,
                                min_year |-> page.yearSlider.min,
                                max_year |-> page.yearSlider.max]]

----------------------------------------------------------------------------
(* The cell endpoint: fetch_sector_years and the body of iter_rows *)

\* the span cut down to its first year
year_span_first(f) == <<f.min_year, f.min_year>>

\* (filters.min_year, filters.max_year), the span iter_rows asks for
year_span(f) == <<f.min_year, f.max_year>>

NumCells(f) == Len(f.countries) * Len(f.sectors)

\* the two loops nested the other way round
CellAtSectorMajor(f, k) ==
    [country |-> f.countries[(k % Len(f.countries)) + 1],
     sector |-> f.sectors[(k \div Len(f.countries)) + 1]]

\* the (country, sector) pair of the k-th pass (k = 0, 1, ...) of
\* "for country in filters.countries: for sector in filters.sectors"
CellAt(f, k) ==
    [country |-> f.countries[(k \div Len(f.sectors)) + 1],
     sector |-> f.sectors[(k % Len(f.sectors)) + 1]]

\* the requests.get of fetch_sector_years
SectorYearsRequest(sector, country, span) ==
    [url |-> SECTOR_YEARS_ENDPOINT,
     params |-> [year |-> span,
                 sector |-> encode_filter(sector),
                 country |-> encode_filter(country)]]

\* not isinstance(payload, dict) or "data" not in payload
UnexpectedPayload(p) == p.kind # "dict" \/ "data" \notin DOMAIN p.fields

\* payload["total"] or payload["totalValue"] raises KeyError
MissingSeries(p) == "total" \notin DOMAIN p.fields \/ "totalValue" \notin DOMAIN p.fields

\* value or 0
OrZero(x) == IF x = Null THEN 0 ELSE x

\* how many triples zip(data, total, totalValue) yields
ZipLen(p) ==
    Min(Len(p.fields.data), Min(Len(p.fields.total), Len(p.fields.totalValue)))

\* the index whose triple the dict comprehension keeps for year y: a later
\* triple of the same year overwrites an earlier one
KeptIndex(p, y) ==
    CHOOSE i \in 1..ZipLen(p) :
        /\ p.fields.data[i] = y
        /\ \A j \in (i + 1)..ZipLen(p) : p.fields.data[j] # y

\* values_by_year: year -> (int(total or 0), float(total_value or 0))
values_by_year(p) ==
    [y \in {p.fields.data[i] : i \in 1..ZipLen(p)} |->
        <<OrZero(p.fields.total[KeptIndex(p, y)]),
          OrZero(p.fields.totalValue[KeptIndex(p, y)])>>]

\* a missing year filled with the year before it
LookupForwardFill(series, year) ==
    IF year \in DOMAIN series THEN series[year]
    ELSE IF year - 1 \in DOMAIN series THEN series[year - 1] ELSE <<0, 0>>

\* values_by_year.get(year, (0, 0.0))
Lookup(series, year) == IF year \in DOMAIN series THEN series[year] ELSE <<0, 0>>

\* the rows iter_rows yields for one (country, sector) pair
CellRows(f, c, p) ==
    LET series == values_by_year(p)
        yrs == year_range(f)
    IN  [i \in 1..Len(yrs) |->
            [country |-> c.country,
             sector |-> c.sector,
             year |-> yrs[i],
             project_count |-> Lookup(series, yrs[i])[1],
             project_value_eur_millions |-> Lookup(series, yrs[i])[2]]]

----------------------------------------------------------------------------
(* The quickStat endpoint and the reconciliation of main *)

QuickStatRequest(f) ==
    [url |-> QUICKSTAT_ENDPOINT,
     params |-> [year |-> <<f.min_year, f.max_year>>,
                 sector |-> <<>>,
                 ccountry |-> ALL_VALUE]]

\* not isinstance(payload, list) or len(payload) < 1
UnexpectedQuickStat(q) == q.kind # "list" \/ Len(q.items) < 1

\* reference["total"] or reference["totalValue"] raises KeyError
MissingTotal(q) ==
    "total" \notin DOMAIN q.items[1] \/ "totalValue" \notin DOMAIN q.items[1]

\* reference.get(key, 0) in place of reference[key]
fetch_reference_totals_lenient(q) ==
    IF UnexpectedQuickStat(q)
    THEN [ok |-> FALSE, type |-> "RuntimeError", msg |-> "Unexpected quickStat payload"]
    ELSE [ok |-> TRUE,
          reference |->
            [total |-> IF "total" \in DOMAIN q.items[1] THEN q.items[1].total ELSE 0,
             total_value |-> IF "totalValue" \in DOMAIN q.items[1]
                             THEN q.items[1].totalValue ELSE 0]]

\* the result of fetch_reference_totals on payload q: the pair it returns, or
\* the exception it raises
fetch_reference_totals(q) ==
    IF UnexpectedQuickStat(q)
    THEN [ok |-> FALSE, type |-> "RuntimeError", msg |-> "Unexpected quickStat payload"]
    ELSE IF MissingTotal(q)
    THEN [ok |-> FALSE, type |-> "KeyError", msg |-> ""]
    ELSE [ok |-> TRUE,
          reference |-> [total |-> q.items[1].total,
                         total_value |-> q.items[1].totalValue]]

RECURSIVE SumCounts(_)
SumCounts(rs) ==
    IF rs = <<>> THEN 0 ELSE Head(rs).project_count + SumCounts(Tail(rs))

RECURSIVE SumValues(_)
SumValues(rs) ==
    IF rs = <<>> THEN 0
    ELSE Head(rs).project_value_eur_millions + SumValues(Tail(rs))

\* round(x) of a value x given in halves: to the nearest integer, a tie to
\* the even one
round(halves) ==
    LET q == halves \div 2
    IN  IF halves % 2 = 0 THEN q
        ELSE IF q % 2 = 0 THEN q ELSE q + 1

\* summed_value != quickstat_total_value
ValueMismatch(summed_value, quickstat_total_value) ==
    summed_value # quickstat_total_value

\* the count check left out
CountBelowDropped(summed_projects, quickstat_total_projects) == FALSE

\* the count check made strict
CountBelowOrEqual(summed_projects, quickstat_total_projects) ==
    summed_projects <= quickstat_total_projects

\* summed_projects < quickstat_total_projects
CountBelow(summed_projects, quickstat_total_projects) ==
    summed_projects < quickstat_total_projects

\* round(total_value_millions / 1000, 1), in tenths of a billion; the model's
\* totals stay far below the first tie at 50
BnTenths(total_value_millions) == (total_value_millions + 50) \div 100

----------------------------------------------------------------------------
(* The remote portal: the pages it may serve and what its endpoints answer *)

Transport == [text |-> <<"T", "r">>, attrs |-> [value |-> <<"1">>]]
CentralEurope == [text |-> <<"C", " ", "E">>, attrs |-> [value |-> <<"2">>]]
Belgium == [text |-> <<"B", "e">>, attrs |-> [value |-> <<"B", "E">>]]
France == [text |-> <<"F", "r">>, attrs |-> [value |-> <<"F", "R">>]]
\* the "select all" option as the portal writes it
AllByText == [text |-> <<"-", "-", "A", "l", "l", "-", "-">>, attrs |-> [value |-> <<>>]]
\* an option that is "select all" by its value alone
AllByValue == [text |-> <<"A", "n", "y">>, attrs |-> [value |-> <<"A", "L", "L">>]]
\* an option with no value attribute and no text but white space
Blank == [text |-> <<" ">>, attrs |-> <<>>]

\* the options a page within the bounds is made of
Options == {Transport, AllByText, AllByValue}

\* a page with the elements of the given ids; an id maps to the empty set when
\* the page lacks the element
PageOf(slider, sector, country) ==
    LET ids == (IF slider = {} THEN {} ELSE {"yearSlider"})
               \cup (IF sector = {} THEN {} ELSE {"sector"})
               \cup (IF country = {} THEN {} ELSE {"country"})
    IN  [id \in ids |->
            CASE id = "yearSlider" -> CHOOSE e \in slider : TRUE
              [] id = "sector" -> CHOOSE e \in sector : TRUE
              [] id = "country" -> CHOOSE e \in country : TRUE]

Sliders == {{}} \cup {{[min |-> a, max |-> b]} : a \in Years, b \in Years}

Selects == {{}} \cup {{opts} : opts \in SeqsUpTo(Options, MaxOptions)}

Pages == {PageOf(sl, se, co) : sl \in Sliders, se \in Selects, co \in Selects}

\* the page of a portal with two sectors, two countries and all of Years,
\* with a "select all" option in each list and an option without text
CubePage ==
    [yearSlider |-> [min |-> 2000, max |-> 2001],
     sector |-> <<AllByText, Transport, Blank, CentralEurope>>,
     country |-> <<AllByText, Belgium, France>>]

Series(d, t, v) == [kind |-> "dict", fields |-> [data |-> d, total |-> t, totalValue |-> v]]

EmptySeries == Series(<<>>, <<>>, <<>>)
PlainSeries == Series(<<2000>>, <<1>>, <<2>>)

\* what the cell endpoint may answer: every series within the bounds, equal
\* in length or not, and the shapes that are no series
CellPayloads ==
    {Series(d, t, v) : d \in SeqsUpTo(PayloadYears, MaxSeqLen),
                       t \in SeqsUpTo({Null, 1}, MaxSeqLen),
                       v \in SeqsUpTo({Null, 1}, MaxSeqLen)}
    \cup {[kind |-> "list", fields |-> <<>>],
          [kind |-> "dict", fields |-> [total |-> <<1>>, totalValue |-> <<2>>]],
          [kind |-> "dict", fields |-> [data |-> <<2000>>, totalValue |-> <<2>>]],
          [kind |-> "dict", fields |-> [data |-> <<2000>>, total |-> <<1>>]]}

\* what the quickStat endpoint may answer
QuickStatPayloads ==
    {[kind |-> "list", items |-> <<[total |-> t, totalValue |-> v]>>] :
        t \in 0..MaxTotal, v \in 0..MaxTotal}
    \cup {[kind |-> "dict", items |-> <<>>],
          [kind |-> "list", items |-> <<>>],
          [kind |-> "list", items |-> <<[totalValue |-> 0]>>],
          [kind |-> "list", items |-> <<[total |-> 0]>>]}

\* a portal is its page and the answers of its cell endpoint: the request
\* numbered `special` is answered with `payload`, every other with `rest`.
\* Either the page is any page within the bounds and every cell answers the
\* same plain series, or the page is CubePage and the first or the last of its
\* four cells answers any payload within the bounds.
DiscoveryPortals ==
    {[page |-> pg, special |-> 0, payload |-> PlainSeries, rest |-> PlainSeries] :
        pg \in Pages}

CubePortals ==
    {[page |-> CubePage, special |-> k, payload |-> p, rest |-> EmptySeries] :
        k \in {1, 4}, p \in CellPayloads}

Response(k) == IF k = portal.special THEN portal.payload ELSE portal.rest

----------------------------------------------------------------------------
(* main *)

NoError == [raised_by |-> "", type |-> "", msg |-> ""]

Raise(by, type, msg) ==
    /\ pc' = "failed"
    /\ err' = [raised_by |-> by, type |-> type, msg |-> msg]

Init ==
    /\ portal \in DiscoveryPortals \cup CubePortals
    /\ pc = "fetch_portal_html"
    /\ html = None
    /\ filters = None
    /\ cell = 0
    /\ payload = None
    /\ rows = <<>>
    /\ quickstat = None
    /\ reference = None
    /\ summed = None
    /\ requests = <<>>
    /\ files = [dir |-> FALSE, csv |-> {}, metadata |-> {}]
    /\ err = NoError

\* html = fetch_portal_html()
FetchPortalHtml ==
    /\ pc = "fetch_portal_html"
    /\ requests' = Append(requests, [url |-> PORTAL_URL, params |-> <<>>])
    /\ \/ /\ html' = portal.page
          /\ pc' = "extract_filters"
          /\ err' = err
       \/ /\ Raise("fetch_portal_html", "HTTPError", "")
          /\ html' = html
    /\ UNCHANGED <<portal, filters, cell, payload, rows, quickstat, reference,
                   summed, files>>

\* filters = extract_filters(html); rows = list(iter_rows(filters)) begins
ExtractFilters ==
    /\ pc = "extract_filters"
    /\ LET r == extract_filters(html)
       IN  IF r.ok
           THEN /\ filters' = r.filters
                /\ pc' = IF NumCells(r.filters) = 0 THEN "fetch_reference_totals"
                         ELSE "fetch_sector_years"
                /\ err' = err
           ELSE /\ Raise("extract_filters", "RuntimeError", r.msg)
                /\ filters' = filters
    /\ UNCHANGED <<portal, html, cell, payload, rows, quickstat, reference,
                   summed, requests, files>>

\* payload = fetch_sector_years(sector, country, (min_year, max_year))
FetchSectorYears ==
    /\ pc = "fetch_sector_years"
    /\ LET c == CellAt(filters, cell)
       IN  requests' = Append(requests,
                              SectorYearsRequest(c.sector, c.country, year_span(filters)))
    /\ \/ /\ ~UnexpectedPayload(Response(cell + 1))
          /\ payload' = Response(cell + 1)
          /\ pc' = "iter_rows"
          /\ err' = err
       \/ /\ UnexpectedPayload(Response(cell + 1))
          /\ Raise("fetch_sector_years", "RuntimeError", "Unexpected payload")
          /\ payload' = Response(cell + 1)
       \/ /\ Raise("fetch_sector_years", "HTTPError", "")
          /\ payload' = payload
    /\ UNCHANGED <<portal, html, filters, cell, rows, quickstat, reference,
                   summed, files>>

\* the rest of one pass of iter_rows: values_by_year and a row for every year
IterRows ==
    /\ pc = "iter_rows"
    /\ IF MissingSeries(payload)
       THEN /\ Raise("iter_rows", "KeyError", "")
            /\ UNCHANGED <<rows, cell>>
       ELSE /\ rows' = rows \o CellRows(filters, CellAt(filters, cell), payload)
            /\ cell' = cell + 1
            /\ pc' = IF cell + 1 = NumCells(filters) THEN "fetch_reference_totals"
                     ELSE "fetch_sector_years"
            /\ err' = err
    /\ UNCHANGED <<portal, html, filters, payload, quickstat, reference, summed,
                   requests, files>>

\* quickstat_total_projects, quickstat_total_value = fetch_reference_totals(filters)
FetchReferenceTotals ==
    /\ pc = "fetch_reference_totals"
    /\ requests' = Append(requests, QuickStatRequest(filters))
    /\ \/ \E q \in QuickStatPayloads :
            /\ quickstat' = q
            /\ LET r == fetch_reference_totals(q)
               IN  IF r.ok
                   THEN /\ reference' = r.reference
                        /\ pc' = "reconcile"
                        /\ err' = err
                   ELSE /\ Raise("fetch_reference_totals", r.type, r.msg)
                        /\ reference' = reference
       \/ /\ Raise("fetch_reference_totals", "HTTPError", "")
          /\ UNCHANGED <<quickstat, reference>>
    /\ UNCHANGED <<portal, html, filters, cell, payload, rows, summed, files>>

\* the two sums of main and its two checks
Reconcile ==
    /\ pc = "reconcile"
    /\ LET summed_projects == SumCounts(rows)
           summed_value == round(SumValues(rows))
       IN  /\ summed' = [projects |-> summed_projects, value |-> summed_value]
           /\ IF ValueMismatch(summed_value, reference.total_value)
              THEN Raise("main", "RuntimeError", "Total project value mismatch")
              ELSE IF CountBelow(summed_projects, reference.total)
              THEN Raise("main", "RuntimeError", "Total project count is below quickStat")
              ELSE /\ pc' = "write_csv"
                   /\ err' = err
    /\ UNCHANGED <<portal, html, filters, cell, payload, rows, quickstat,
                   reference, requests, files>>

\* row_count = write_csv(rows, args.out_csv)
WriteCsv ==
    /\ pc = "write_csv"
    /\ IF rows = <<>>
       THEN /\ files' = [files EXCEPT !.dir = TRUE]
            /\ Raise("write_csv", "RuntimeError", "No rows returned from the API.")
       ELSE /\ files' = [files EXCEPT !.dir = TRUE, !.csv = {rows}]
            /\ pc' = "write_metadata"
            /\ err' = err
    /\ UNCHANGED <<portal, html, filters, cell, payload, rows, quickstat,
                   reference, summed, requests>>

\* write_metadata(...) and the closing print
WriteMetadata ==
    /\ pc = "write_metadata"
    /\ files' = [files EXCEPT !.metadata =
                    {[source |-> PORTAL_URL,
                      countries |-> filters.countries,
                      sectors |-> filters.sectors,
                      year_start |-> filters.min_year,
                      year_end |-> filters.max_year,
                      row_count |-> Len(rows),
                      total_projects |-> summed.projects,
                      total_project_value_eur_millions |-> summed.value,
                      total_project_value_eur_bn |-> BnTenths(summed.value)]}]
    /\ pc' = "done"
    /\ UNCHANGED <<portal, html, filters, cell, payload, rows, quickstat,
                   reference, summed, requests, err>>

Next ==
    \/ FetchPortalHtml
    \/ ExtractFilters
    \/ FetchSectorYears
    \/ IterRows
    \/ FetchReferenceTotals
    \/ Reconcile
    \/ WriteCsv
    \/ WriteMetadata

Spec == Init /\ [][Next]_vars

----------------------------------------------------------------------------
(* Properties *)

\* the run got past both checks of main
ChecksPassed ==
    \/ pc \in {"write_csv", "write_metadata", "done"}
    \/ pc = "failed" /\ err.raised_by = "write_csv"

\* list(iter_rows(filters)) returned
Assembled ==
    \/ pc \in {"fetch_reference_totals", "reconcile"}
    \/ pc = "failed" /\ err.raised_by \in {"fetch_reference_totals", "main"}
    \/ ChecksPassed

FileWritten == files.csv # {} \/ files.metadata # {}

\* C1: the CSV and the metadata are written only after both reconciliation
\* checks have passed, and a run that aborts in discovery, in a fetch, on a
\* malformed response or in reconciliation has written no output file.
C1_WritesOnlyAfterReconciliation ==
    /\ FileWritten =>
          /\ pc \in {"write_metadata", "done"}
          /\ summed.value = reference.total_value
          /\ summed.projects >= reference.total
    /\ files.metadata # {} => files.csv # {}
    /\ (pc = "failed" /\ err.raised_by # "write_csv") => ~FileWritten

C1_Witness == pc = "done" /\ files.csv = {rows} /\ files.metadata # {}

\* C2: reconciliation passes if and only if the rounded sum of the record
\* values equals the reference totalValue and the sum of the record counts is
\* at least the reference totalProjects; otherwise main raises.
C2_ReconciliationIff ==
    (ChecksPassed \/ (pc = "failed" /\ err.raised_by = "main")) =>
        /\ summed.projects = SumCounts(rows)
        /\ 2 * summed.value - SumValues(rows) \in {0 - 1, 0, 1}
        /\ ChecksPassed <=>
              /\ summed.value = reference.total_value
              /\ summed.projects >= reference.total

C2_Witness ==
    /\ pc = "write_csv"
    /\ summed.projects > reference.total
    /\ SumValues(rows) = 1

\* C3: for a domain with minYear <= maxYear a fully consumed iter_rows has
\* yielded len(countries) * len(sectors) * (maxYear - minYear + 1) records,
\* whatever the cell responses held.
C3_DenseCubeLength ==
    (Assembled /\ filters.min_year <= filters.max_year) =>
        Len(rows) = Len(filters.countries) * Len(filters.sectors)
                    * (filters.max_year - filters.min_year + 1)

C3_Witness ==
    /\ Assembled
    /\ Len(rows) = 8
    /\ portal.special = 4
    /\ portal.payload = Series(<<1999, 1999>>, <<1>>, <<Null, 1>>)

\* C4: the records come in the order of the domain alone: countries in domain
\* order outermost, sectors in domain order within a country, years ascending
\* from minYear within a (country, sector) pair.
C4_RecordOrder ==
    \A i \in 1..Len(rows) :
        LET Y == filters.max_year - filters.min_year + 1
            S == Len(filters.sectors)
        IN  /\ rows[i].country = filters.countries[((i - 1) \div (S * Y)) + 1]
            /\ rows[i].sector = filters.sectors[(((i - 1) \div Y) % S) + 1]
            /\ rows[i].year = filters.min_year + ((i - 1) % Y)

C4_Witness ==
    /\ pc = "fetch_reference_totals"
    /\ Len(rows) = 8
    /\ rows[3].country = <<"B", "e">> /\ rows[3].sector = <<"C", " ", "E">>
    /\ rows[5].country = <<"F", "r">> /\ rows[5].sector = <<"T", "r">>
    /\ rows[8].project_count = 1

\* the response the portal gave for the pair of row i
ResponseOfRow(i) ==
    Response(((i - 1) \div (filters.max_year - filters.min_year + 1)) + 1)

\* C5: a record whose year is no key of the pair's series has count 0 and
\* value 0.0; a record whose year is a key carries that year's count and
\* value, null read as zero.
C5_ZeroFill ==
    \A i \in 1..Len(rows) :
        LET f == ResponseOfRow(i).fields
            n == Min(Len(f.data), Min(Len(f.total), Len(f.totalValue)))
            at == {j \in 1..n : f.data[j] = rows[i].year}
        IN  IF at = {}
            THEN rows[i].project_count = 0 /\ rows[i].project_value_eur_millions = 0
            ELSE \E j \in at :
                   /\ \A k \in at : k <= j
                   /\ rows[i].project_count = (IF f.total[j] = Null THEN 0 ELSE f.total[j])
                   /\ rows[i].project_value_eur_millions =
                          (IF f.totalValue[j] = Null THEN 0 ELSE f.totalValue[j])

C5_Witness ==
    /\ Len(rows) = 8
    /\ portal.special = 4
    /\ portal.payload = Series(<<2000>>, <<1>>, <<1>>)
    /\ rows[7].project_count = 1 /\ rows[7].project_value_eur_millions = 1
    /\ rows[8].project_count = 0 /\ rows[8].project_value_eur_millions = 0

\* a response that is a mapping with the three sequences, all of one length
WellFormedSeries(p) ==
    /\ p.kind = "dict"
    /\ {"data", "total", "totalValue"} \subseteq DOMAIN p.fields
    /\ Len(p.fields.data) = Len(p.fields.total)
    /\ Len(p.fields.data) = Len(p.fields.totalValue)

\* C6: a cell response that is not a mapping with all three sequences, or
\* whose sequences differ in length, fails inside the cell fetch; such a
\* response is never handed on to be zipped and no record comes from it.
C6_MalformedCellRejected ==
    /\ pc = "iter_rows" => WellFormedSeries(payload)
    /\ \A k \in 1..cell : WellFormedSeries(Response(k))

\* the quickStat payload is no sequence, is empty, or its first element lacks
\* total or totalValue
MalformedQuickStat(q) ==
    \/ q.kind # "list"
    \/ q.items = <<>>
    \/ ~({"total", "totalValue"} \subseteq DOMAIN q.items[1])

\* C7: a malformed quickStat payload makes fetch_reference_totals raise, and
\* the comparisons of main are not evaluated in that run.
C7_MalformedReferenceAborts ==
    (quickstat # None /\ MalformedQuickStat(quickstat)) =>
        /\ pc = "failed"
        /\ err.raised_by = "fetch_reference_totals"
        /\ err.type \in {"RuntimeError", "KeyError"}
        /\ reference = None
        /\ summed = None
        /\ ~FileWritten

C7_Witness ==
    /\ quickstat = [kind |-> "list", items |-> <<[total |-> 0]>>]
    /\ pc = "failed"
    /\ Len(rows) = 8

\* the page lacks a selection element, or one of its lists is empty once the
\* options extract_filters drops are gone
NoDomain(page) ==
    \/ "sector" \notin DOMAIN page
    \/ "country" \notin DOMAIN page
    \/ SelectSeq(page.sector, KeepSector) = <<>>
    \/ SelectSeq(page.country, KeepCountry) = <<>>

IsSentinel(opt) ==
    \/ Contains(opt.text, ALL_MARKER)
    \/ lower(get_value(opt)) = ALL_VALUE

Listed(opt) == ~IsSentinel(opt) /\ get_text_strip(opt) # <<>>

\* C9: the sector list and the country list of the domain both hold, in
\* portal order, the texts of exactly the options that are no "select all"
\* sentinel (by text or by value, whatever its case) and have a text.
C9_SentinelsExcludedFromBoth ==
    filters # None =>
        /\ filters.sectors = Texts(SelectSeq(html.sector, Listed))
        /\ filters.countries = Texts(SelectSeq(html.country, Listed))

\* the requests of a whole run, in order
ExpectedRequests ==
    LET S == Len(filters.sectors)
        N == Len(filters.countries) * S
    IN  <<[url |-> PORTAL_URL, params |-> <<>>]>>
        \o [k \in 1..N |->
              [url |-> SECTOR_YEARS_ENDPOINT,
               params |-> [year |-> <<filters.min_year, filters.max_year>>,
                           sector |-> encode_filter(filters.sectors[((k - 1) % S) + 1]),
                           country |-> encode_filter(
                                          filters.countries[((k - 1) \div S) + 1])]]]
        \o <<[url |-> QUICKSTAT_ENDPOINT,
              params |-> [year |-> <<filters.min_year, filters.max_year>>,
                          sector |-> <<>>, ccountry |-> ALL_VALUE]]>>

\* C10: a run that reaches persistence has asked the portal page first, then
\* the cell endpoint once per (country, sector) pair with the full span
\* (minYear, maxYear), then quickStat, and nothing after it.
C10_OneRequestPerPairInOrder ==
    (pc \in {"write_csv", "write_metadata", "done"} \/ FileWritten) =>
        requests = ExpectedRequests

C10_Witness ==
    /\ pc = "write_metadata"
    /\ Len(requests) = 6
    /\ requests[3].params.sector = <<"C", "_", "E">>
    /\ filters.min_year < filters.max_year

=============================================================================
